---- MODULE Spec2Model ----
(***************************************************************************)
(* The gimbal stabilizer of hw/gimbal/firmware/gimbal/gimbal_stabilizer.cc *)
(* as a state machine: GimbalStabilizer::Impl with its two entry points,   *)
(* HandleAhrs (the AHRS signal's callback) and PollMillisecond, the clock  *)
(* they read, and the three actuator objects they write.                   *)
(*                                                                         *)
(* Representation.                                                         *)
(*  - A uint32_t is a pair <<hi, lo>> of 16-bit halves, so that the        *)
(*    arithmetic is the arithmetic modulo 2^32 of the code.                *)
(*  - A float that holds seconds (Config's periods) is the integer number  *)
(*    of thousandths of a second; a float that holds degrees is an integer *)
(*    number of degrees; a PID command (a fraction of an electrical turn)  *)
(*    is an integer number of twelfths of a turn.                          *)
(***************************************************************************)
EXTENDS Integers, Sequences, FiniteSets, TLC

\* The horizon of a run: samples are delivered until Margin ticks after the
\* configured initialization period has passed since construction.
Margin == 6

\* Clock::ticks_per_second() (clock.h).
ticks_per_second == 20

\* FLT_MAX, the largest finite float (about 3.4e38): as a period it stands
\* for itself, outside the scale of thousandths of a second.
FLT_MAX == 2147483647

Horizon(cfg) ==
  LET q == IF cfg.initialization_period_s = FLT_MAX
             THEN 0
             ELSE (cfg.initialization_period_s * ticks_per_second) \div 1000
  IN  (IF q > 0 THEN q ELSE 0) + Margin

VARIABLES
  config_,        \* Impl::config_
  data_,          \* Impl::data_
  clock_,         \* what Impl::clock_.timestamp() returns now
  motor_enable_,  \* the level last set on Impl::motor_enable_
  motor1_,        \* the phases last set on Impl::motor1_
  motor2_,        \* the phases last set on Impl::motor2_
  asserted_,      \* an assert(false) was reached
  ahrs_connected, \* the AHRS signal still delivers samples
  uptime,         \* ticks since construction
  call,           \* the step taken last
  sample,         \* the AhrsData of the last HandleAhrs call
  pre,            \* data_ and the actuators as the last step found them
  emitted,        \* the actuator and telemetry calls made by the last step
  scenario,       \* how far the run follows the scenario of section 8
  history,        \* what the samples handled so far have shown
  frame           \* the HandleAhrs call in progress, if one is

vars == <<config_, data_, clock_, motor_enable_, motor1_, motor2_, asserted_,
          ahrs_connected, uptime, call, sample, pre, emitted, scenario,
          history, frame>>

-----------------------------------------------------------------------------
(* uint32_t *)

Two16 == 2^16

U32Zero == <<0, 0>>

U32Add(a, n) ==
  LET lo == a[2] + n
  IN  <<(a[1] + (lo \div Two16)) % Two16, lo % Two16>>

\* The difference without the wrap: 0 when a is below b.
U32Sub_Saturating(a, b) ==
  IF a[1] < b[1] \/ (a[1] = b[1] /\ a[2] < b[2])
    THEN U32Zero
    ELSE LET lo == a[2] - b[2]
         IN  <<(a[1] - b[1] + (lo \div Two16)) % Two16, lo % Two16>>

U32Sub(a, b) ==
  LET lo == a[2] - b[2]
  IN  <<(a[1] - b[1] + (lo \div Two16)) % Two16, lo % Two16>>

\* delta / ticks_per_second > period_s, for delta a uint32_t and period_s in
\* thousandths: delta * 1000 > period_s * ticks_per_second, that is
\* delta > floor(period_s * ticks_per_second / 1000).  The quotient is the
\* exact one: Clock::ticks_per_second() is taken to return a float, so that
\* neither DoInitializing's quotient nor PollMillisecond's, which casts its
\* numerator to float, truncates to whole seconds; the floats are taken as
\* exact.  No uint32_t delta over ticks_per_second exceeds FLT_MAX.
ElapsedExceeds(delta, period_s) ==
  IF period_s = FLT_MAX
    THEN FALSE
    ELSE LET q == (period_s * ticks_per_second) \div 1000
         IN  \/ delta[1] > q \div Two16
             \/ delta[1] = q \div Two16 /\ delta[2] > q % Two16

-----------------------------------------------------------------------------
(* Impl::State *)

kInitializing == "kInitializing"
kOperating == "kOperating"
kFault == "kFault"
kNumStates == "kNumStates"

State == {kInitializing, kOperating, kFault, kNumStates}

-----------------------------------------------------------------------------
(* PID (pid.h) *)

PidConfig == [kp |-> 1, ki |-> 1, kd |-> 1, ilimit |-> 1, limit |-> 48]

PidState == [integral |-> 0]

Clamp(x, lo, hi) == IF x < lo THEN lo ELSE IF x > hi THEN hi ELSE x

PidApply(cfg, st, measured, desired, measured_rate, desired_rate, rate_hz) ==
  LET error == measured - desired
      error_rate == measured_rate - desired_rate
      integral == Clamp(st.integral + (cfg.ki * error) \div rate_hz,
                        -cfg.ilimit, cfg.ilimit)
      command == Clamp(cfg.kp * error + cfg.kd * error_rate + integral,
                       -cfg.limit, cfg.limit)
  IN  [state |-> [integral |-> integral], command |-> command]

-----------------------------------------------------------------------------
(* Config *)

ChannelConfig(motor) == [motor |-> motor, pid |-> PidConfig]

DefaultConfig ==
  [initialization_period_s |-> 1000,
   watchdog_period_s |-> 100,
   pitch |-> ChannelConfig(1),
   yaw |-> ChannelConfig(2)]

\* What config.Register can leave in config_: the defaults, or a persisted
\* configuration.
PersistedConfigs ==
  {DefaultConfig,
   [DefaultConfig EXCEPT !.initialization_period_s = 100],
   [DefaultConfig EXCEPT !.initialization_period_s = 0],
   [DefaultConfig EXCEPT !.initialization_period_s = -1000],
   [DefaultConfig EXCEPT !.initialization_period_s = 100,
                         !.watchdog_period_s = 50],
   [DefaultConfig EXCEPT !.initialization_period_s = 100,
                         !.pitch.motor = 2, !.yaw.motor = 1],
   [DefaultConfig EXCEPT !.initialization_period_s = 100,
                         !.pitch.motor = 2, !.yaw.motor = 2],
   [DefaultConfig EXCEPT !.initialization_period_s = 100,
                         !.pitch.motor = 255, !.yaw.motor = 0],
   [DefaultConfig EXCEPT !.initialization_period_s = 100,
                         !.pitch.motor = 1, !.yaw.motor = 1]}

-----------------------------------------------------------------------------
(* Data *)

Euler(pitch, yaw) == [roll |-> 0, pitch |-> pitch, yaw |-> yaw]

Point3D == [x |-> 0, y |-> 0, z |-> 0]

\* Data's default member initializers; `state' has none.
Data(state) ==
  [state |-> state,
   pitch |-> PidState,
   yaw |-> PidState,
   start_timestamp |-> U32Zero,
   desired_deg |-> Euler(0, 0),
   desired_body_rate_dps |-> Point3D,
   last_ahrs_update |-> U32Zero,
   torque_on |-> FALSE]

-----------------------------------------------------------------------------
(* AhrsData *)

AhrsData(error, pitch, yaw, timestamp) ==
  [error |-> error,
   euler_deg |-> Euler(pitch, yaw),
   body_rate_dps |-> Point3D,
   timestamp |-> timestamp,
   rate_hz |-> 15]

NoSample == AhrsData(FALSE, 0, 0, U32Zero)

\* The samples the AHRS can deliver when the clock reads `now': stamped now
\* or one tick earlier.
AhrsSamples(now) ==
  {AhrsData(TRUE, 0, 0, now),
   AhrsData(FALSE, 0, 0, now),
   AhrsData(FALSE, 0, 45, now),
   AhrsData(FALSE, 15, 45, U32Sub(now, <<0, 1>>))}

-----------------------------------------------------------------------------
(* The actuators: GpioPin::Set and BldcPwm::Set *)

Zero3 == <<0, 0, 0>>

Event(dev, on, pwm) == [dev |-> dev, on |-> on, pwm |-> pwm]

GpioSet(m, value) ==
  [m EXCEPT !.motor_enable = value,
            !.emitted = Append(@, Event("motor_enable", value, Zero3))]

BldcSet(m, motor, pwm) ==
  IF motor = 1
    THEN [m EXCEPT !.motor1 = pwm,
                   !.emitted = Append(@, Event("motor1", FALSE, pwm))]
    ELSE [m EXCEPT !.motor2 = pwm,
                   !.emitted = Append(@, Event("motor2", FALSE, pwm))]

\* pitch_motor with motor2_ as the fallback.
pitch_motor_FallbackTwo(cfg) ==
  IF cfg.pitch.motor = 1 THEN 1
  ELSE IF cfg.pitch.motor = 2 THEN 2
  ELSE 2

pitch_motor(cfg) ==
  IF cfg.pitch.motor = 1 THEN 1
  ELSE IF cfg.pitch.motor = 2 THEN 2
  ELSE 1

yaw_motor(cfg) ==
  IF cfg.yaw.motor = 1 THEN 1
  ELSE IF cfg.yaw.motor = 2 THEN 2
  ELSE 2

-----------------------------------------------------------------------------
(* The phase lambda of DoOperating *)

\* trunc((sin(k * 2 pi / 12) + 1) * 32767), k = 0 .. 11
SinTable ==
  <<32767, 49150, 61144, 65534, 61144, 49150,
    32767, 16383, 4389, 0, 4389, 16383>>

Min(a, b) == IF a < b THEN a ELSE b
Max(a, b) == IF a > b THEN a ELSE b

\* The phase lambda with the scale doubled and the clamp left out.
phase_DoubleUnclamped(command, offset) ==
  2 * SinTable[((command + offset) % 12) + 1]

phase(command, offset) ==
  LET fresult == SinTable[((command + offset) % 12) + 1]
  IN  Max(0, Min(65535, fresult))

-----------------------------------------------------------------------------
(* The handlers, on m = the stabilizer's data and the actuators *)

\* DoFault with the write to motor2_ left out.
DoFault_OneMotor(m) ==
  LET m1 == [m EXCEPT !.data.state = kFault, !.data.torque_on = FALSE]
      m2 == GpioSet(m1, FALSE)
  IN  BldcSet(m2, 1, Zero3)

\* DoFault with the integrators of both PIDs cleared.
DoFault_ResetsIntegrators(m) ==
  LET m1 == [m EXCEPT !.data.state = kFault, !.data.torque_on = FALSE,
                      !.data.pitch = PidState, !.data.yaw = PidState]
      m2 == GpioSet(m1, FALSE)
      m3 == BldcSet(m2, 1, Zero3)
  IN  BldcSet(m3, 2, Zero3)

\* DoFault without the writes to the motors.
DoFault_SkipsMotors(m) ==
  LET m1 == [m EXCEPT !.data.state = kFault, !.data.torque_on = FALSE]
  IN  GpioSet(m1, FALSE)

DoFault(m) ==
  LET m1 == [m EXCEPT !.data.state = kFault, !.data.torque_on = FALSE]
      m2 == GpioSet(m1, FALSE)
      m3 == BldcSet(m2, 1, Zero3)
  IN  BldcSet(m3, 2, Zero3)

\* DoInitializing with the yaw setpoint left at its default.
DoInitializing_NoYawLatch(m, cfg, data, now) ==
  LET m1 == GpioSet(m, FALSE)
  IN  IF data.error
        THEN [m1 EXCEPT !.data.start_timestamp = U32Zero]
      ELSE IF m1.data.start_timestamp = U32Zero
        THEN [m1 EXCEPT !.data.start_timestamp = now]
      ELSE IF ElapsedExceeds(U32Sub(now, m1.data.start_timestamp),
                             cfg.initialization_period_s)
        THEN [m1 EXCEPT !.data.desired_deg.pitch = 0,
                        !.data.last_ahrs_update = now,
                        !.data.state = kOperating]
      ELSE m1

\* DoInitializing with >= for >.
DoInitializing_NonStrict(m, cfg, data, now) ==
  LET m1 == GpioSet(m, FALSE)
      ticks == cfg.initialization_period_s * ticks_per_second
      delta == U32Sub(now, m1.data.start_timestamp)
  IN  IF data.error
        THEN [m1 EXCEPT !.data.start_timestamp = U32Zero]
      ELSE IF m1.data.start_timestamp = U32Zero
        THEN [m1 EXCEPT !.data.start_timestamp = now]
      ELSE IF \/ ElapsedExceeds(delta, cfg.initialization_period_s)
              \/ ticks % 1000 = 0 /\ delta = <<0, ticks \div 1000>>
        THEN [m1 EXCEPT !.data.desired_deg.pitch = 0,
                        !.data.desired_deg.yaw = data.euler_deg.yaw,
                        !.data.last_ahrs_update = now,
                        !.data.state = kOperating]
      ELSE m1

\* DoInitializing with an error-flagged sample leaving the timer running.
DoInitializing_ErrorKeepsTimer(m, cfg, data, now) ==
  LET m1 == GpioSet(m, FALSE)
  IN  IF data.error
        THEN m1
      ELSE IF m1.data.start_timestamp = U32Zero
        THEN [m1 EXCEPT !.data.start_timestamp = now]
      ELSE IF ElapsedExceeds(U32Sub(now, m1.data.start_timestamp),
                             cfg.initialization_period_s)
        THEN [m1 EXCEPT !.data.desired_deg.pitch = 0,
                        !.data.desired_deg.yaw = data.euler_deg.yaw,
                        !.data.last_ahrs_update = now,
                        !.data.state = kOperating]
      ELSE m1

\* DoInitializing with last_ahrs_update also set when the timer is started.
DoInitializing_StampsEarly(m, cfg, data, now) ==
  LET m1 == GpioSet(m, FALSE)
  IN  IF data.error
        THEN [m1 EXCEPT !.data.start_timestamp = U32Zero]
      ELSE IF m1.data.start_timestamp = U32Zero
        THEN [m1 EXCEPT !.data.start_timestamp = now,
                        !.data.last_ahrs_update = now]
      ELSE IF ElapsedExceeds(U32Sub(now, m1.data.start_timestamp),
                             cfg.initialization_period_s)
        THEN [m1 EXCEPT !.data.desired_deg.pitch = 0,
                        !.data.desired_deg.yaw = data.euler_deg.yaw,
                        !.data.last_ahrs_update = now,
                        !.data.state = kOperating]
      ELSE m1

\* DoInitializing with an error-flagged sample taken to Fault.
DoInitializing_ErrorFaults(m, cfg, data, now) ==
  LET m1 == GpioSet(m, FALSE)
  IN  IF data.error
        THEN DoFault(m1)
      ELSE IF m1.data.start_timestamp = U32Zero
        THEN [m1 EXCEPT !.data.start_timestamp = now]
      ELSE IF ElapsedExceeds(U32Sub(now, m1.data.start_timestamp),
                             cfg.initialization_period_s)
        THEN [m1 EXCEPT !.data.desired_deg.pitch = 0,
                        !.data.desired_deg.yaw = data.euler_deg.yaw,
                        !.data.last_ahrs_update = now,
                        !.data.state = kOperating]
      ELSE m1

\* DoInitializing without the return after the timer is started: the sample
\* that starts the timer goes on to the elapsed-time test.
DoInitializing_FallsThrough(m, cfg, data, now) ==
  LET m1 == GpioSet(m, FALSE)
      m2 == IF m1.data.start_timestamp = U32Zero
              THEN [m1 EXCEPT !.data.start_timestamp = now]
              ELSE m1
  IN  IF data.error
        THEN [m1 EXCEPT !.data.start_timestamp = U32Zero]
      ELSE IF ElapsedExceeds(U32Sub(now, m2.data.start_timestamp),
                             cfg.initialization_period_s)
        THEN [m2 EXCEPT !.data.desired_deg.pitch = 0,
                        !.data.desired_deg.yaw = data.euler_deg.yaw,
                        !.data.last_ahrs_update = now,
                        !.data.state = kOperating]
      ELSE m2

\* DoInitializing with an error-flagged sample restarting the timer at the
\* clock's tick instead of clearing it.
DoInitializing_ErrorRestartsAtNow(m, cfg, data, now) ==
  LET m1 == GpioSet(m, FALSE)
  IN  IF data.error
        THEN [m1 EXCEPT !.data.start_timestamp = now]
      ELSE IF m1.data.start_timestamp = U32Zero
        THEN [m1 EXCEPT !.data.start_timestamp = now]
      ELSE IF ElapsedExceeds(U32Sub(now, m1.data.start_timestamp),
                             cfg.initialization_period_s)
        THEN [m1 EXCEPT !.data.desired_deg.pitch = 0,
                        !.data.desired_deg.yaw = data.euler_deg.yaw,
                        !.data.last_ahrs_update = now,
                        !.data.state = kOperating]
      ELSE m1

\* DoInitializing with the enable line set true on entry.
DoInitializing_EnablesDrive(m, cfg, data, now) ==
  LET m1 == GpioSet(m, TRUE)
  IN  IF data.error
        THEN [m1 EXCEPT !.data.start_timestamp = U32Zero]
      ELSE IF m1.data.start_timestamp = U32Zero
        THEN [m1 EXCEPT !.data.start_timestamp = now]
      ELSE IF ElapsedExceeds(U32Sub(now, m1.data.start_timestamp),
                             cfg.initialization_period_s)
        THEN [m1 EXCEPT !.data.desired_deg.pitch = 0,
                        !.data.desired_deg.yaw = data.euler_deg.yaw,
                        !.data.last_ahrs_update = now,
                        !.data.state = kOperating]
      ELSE m1

\* DoInitializing arming without recording the tick in last_ahrs_update.
DoInitializing_ArmsUnstamped(m, cfg, data, now) ==
  LET m1 == GpioSet(m, FALSE)
  IN  IF data.error
        THEN [m1 EXCEPT !.data.start_timestamp = U32Zero]
      ELSE IF m1.data.start_timestamp = U32Zero
        THEN [m1 EXCEPT !.data.start_timestamp = now]
      ELSE IF ElapsedExceeds(U32Sub(now, m1.data.start_timestamp),
                             cfg.initialization_period_s)
        THEN [m1 EXCEPT !.data.desired_deg.pitch = 0,
                        !.data.desired_deg.yaw = data.euler_deg.yaw,
                        !.data.state = kOperating]
      ELSE m1

\* DoInitializing with the phases of the zero command written to the pitch
\* motor on arming.
DoInitializing_ArmsAndDrives(m, cfg, data, now) ==
  LET m1 == GpioSet(m, FALSE)
  IN  IF data.error
        THEN [m1 EXCEPT !.data.start_timestamp = U32Zero]
      ELSE IF m1.data.start_timestamp = U32Zero
        THEN [m1 EXCEPT !.data.start_timestamp = now]
      ELSE IF ElapsedExceeds(U32Sub(now, m1.data.start_timestamp),
                             cfg.initialization_period_s)
        THEN BldcSet([m1 EXCEPT !.data.desired_deg.pitch = 0,
                                !.data.desired_deg.yaw = data.euler_deg.yaw,
                                !.data.last_ahrs_update = now,
                                !.data.state = kOperating],
                     pitch_motor(cfg),
                     <<phase(0, 0), phase(0, 4), phase(0, 8)>>)
      ELSE m1

\* DoInitializing without the assignment of line 97: the timer is never set.
DoInitializing_TimerNeverSet(m, cfg, data, now) ==
  LET m1 == GpioSet(m, FALSE)
  IN  IF data.error
        THEN [m1 EXCEPT !.data.start_timestamp = U32Zero]
      ELSE IF m1.data.start_timestamp = U32Zero
        THEN m1
      ELSE IF ElapsedExceeds(U32Sub(now, m1.data.start_timestamp),
                             cfg.initialization_period_s)
        THEN [m1 EXCEPT !.data.desired_deg.pitch = 0,
                        !.data.desired_deg.yaw = data.euler_deg.yaw,
                        !.data.last_ahrs_update = now,
                        !.data.state = kOperating]
      ELSE m1

DoInitializing(m, cfg, data, now) ==
  LET m1 == GpioSet(m, FALSE)
  IN  IF data.error
        THEN [m1 EXCEPT !.data.start_timestamp = U32Zero]
      ELSE IF m1.data.start_timestamp = U32Zero
        THEN [m1 EXCEPT !.data.start_timestamp = now]
      ELSE IF ElapsedExceeds(U32Sub(now, m1.data.start_timestamp),
                             cfg.initialization_period_s)
        THEN [m1 EXCEPT !.data.desired_deg.pitch = 0,
                        !.data.desired_deg.yaw = data.euler_deg.yaw,
                        !.data.last_ahrs_update = now,
                        !.data.state = kOperating]
      ELSE m1

\* DoOperating with the timestamp recorded before the error check.
DoOperating_StampsFirst(m, cfg, data) ==
  LET m1 == [m EXCEPT !.data.last_ahrs_update = data.timestamp]
  IN  IF data.error THEN DoFault(m1) ELSE m1

\* DoOperating with the pitch phases written to the yaw motor and the yaw
\* phases to the pitch motor.
DoOperating_MotorsSwapped(m, cfg, data) ==
  IF data.error
    THEN DoFault(m)
    ELSE
      LET m1 == [m EXCEPT !.data.last_ahrs_update = data.timestamp]
          m2 == GpioSet(m1, m1.data.torque_on)
          p == PidApply(cfg.pitch.pid, m2.data.pitch,
                        data.euler_deg.pitch, m2.data.desired_deg.pitch,
                        data.body_rate_dps.x, m2.data.desired_body_rate_dps.x,
                        data.rate_hz)
          y == PidApply(cfg.yaw.pid, m2.data.yaw,
                        data.euler_deg.yaw, m2.data.desired_deg.yaw,
                        data.body_rate_dps.z, m2.data.desired_body_rate_dps.z,
                        data.rate_hz)
          m3 == [m2 EXCEPT !.data.pitch = p.state,
                           !.data.yaw = y.state,
                           !.emitted = @ \o <<Event("pitch_pid", FALSE, Zero3),
                                              Event("yaw_pid", FALSE, Zero3)>>]
          m4 == BldcSet(m3, yaw_motor(cfg),
                        <<phase(p.command, 0), phase(p.command, 4),
                          phase(p.command, 8)>>)
      IN  BldcSet(m4, pitch_motor(cfg),
                  <<phase(y.command, 0), phase(y.command, 4),
                    phase(y.command, 8)>>)

\* DoOperating with the pitch PID given the desired yaw as its setpoint.
DoOperating_PitchAgainstYaw(m, cfg, data) ==
  IF data.error
    THEN DoFault(m)
    ELSE
      LET m1 == [m EXCEPT !.data.last_ahrs_update = data.timestamp]
          m2 == GpioSet(m1, m1.data.torque_on)
          p == PidApply(cfg.pitch.pid, m2.data.pitch,
                        data.euler_deg.pitch, m2.data.desired_deg.yaw,
                        data.body_rate_dps.x, m2.data.desired_body_rate_dps.x,
                        data.rate_hz)
          y == PidApply(cfg.yaw.pid, m2.data.yaw,
                        data.euler_deg.yaw, m2.data.desired_deg.yaw,
                        data.body_rate_dps.z, m2.data.desired_body_rate_dps.z,
                        data.rate_hz)
          m3 == [m2 EXCEPT !.data.pitch = p.state,
                           !.data.yaw = y.state,
                           !.emitted = @ \o <<Event("pitch_pid", FALSE, Zero3),
                                              Event("yaw_pid", FALSE, Zero3)>>]
          m4 == BldcSet(m3, pitch_motor(cfg),
                        <<phase(p.command, 0), phase(p.command, 4),
                          phase(p.command, 8)>>)
      IN  BldcSet(m4, yaw_motor(cfg),
                  <<phase(y.command, 0), phase(y.command, 4),
                    phase(y.command, 8)>>)

\* DoOperating with torque_on set true on an accepted sample.
DoOperating_GrantsTorque(m, cfg, data) ==
  IF data.error
    THEN DoFault(m)
    ELSE
      LET m1 == [m EXCEPT !.data.last_ahrs_update = data.timestamp,
                         !.data.torque_on = TRUE]
          m2 == GpioSet(m1, m1.data.torque_on)
          p == PidApply(cfg.pitch.pid, m2.data.pitch,
                        data.euler_deg.pitch, m2.data.desired_deg.pitch,
                        data.body_rate_dps.x, m2.data.desired_body_rate_dps.x,
                        data.rate_hz)
          y == PidApply(cfg.yaw.pid, m2.data.yaw,
                        data.euler_deg.yaw, m2.data.desired_deg.yaw,
                        data.body_rate_dps.z, m2.data.desired_body_rate_dps.z,
                        data.rate_hz)
          m3 == [m2 EXCEPT !.data.pitch = p.state,
                           !.data.yaw = y.state,
                           !.emitted = @ \o <<Event("pitch_pid", FALSE, Zero3),
                                              Event("yaw_pid", FALSE, Zero3)>>]
          m4 == BldcSet(m3, pitch_motor(cfg),
                        <<phase(p.command, 0), phase(p.command, 4),
                          phase(p.command, 8)>>)
      IN  BldcSet(m4, yaw_motor(cfg),
                  <<phase(y.command, 0), phase(y.command, 4),
                    phase(y.command, 8)>>)

\* DoOperating with the yaw setpoint following the sample.
DoOperating_TracksYaw(m, cfg, data) ==
  IF data.error
    THEN DoFault(m)
    ELSE
      LET m1 == [m EXCEPT !.data.last_ahrs_update = data.timestamp,
                         !.data.desired_deg.yaw = data.euler_deg.yaw]
          m2 == GpioSet(m1, m1.data.torque_on)
          p == PidApply(cfg.pitch.pid, m2.data.pitch,
                        data.euler_deg.pitch, m2.data.desired_deg.pitch,
                        data.body_rate_dps.x, m2.data.desired_body_rate_dps.x,
                        data.rate_hz)
          y == PidApply(cfg.yaw.pid, m2.data.yaw,
                        data.euler_deg.yaw, m2.data.desired_deg.yaw,
                        data.body_rate_dps.z, m2.data.desired_body_rate_dps.z,
                        data.rate_hz)
          m3 == [m2 EXCEPT !.data.pitch = p.state,
                           !.data.yaw = y.state,
                           !.emitted = @ \o <<Event("pitch_pid", FALSE, Zero3),
                                              Event("yaw_pid", FALSE, Zero3)>>]
          m4 == BldcSet(m3, pitch_motor(cfg),
                        <<phase(p.command, 0), phase(p.command, 4),
                          phase(p.command, 8)>>)
      IN  BldcSet(m4, yaw_motor(cfg),
                  <<phase(y.command, 0), phase(y.command, 4),
                    phase(y.command, 8)>>)

\* DoOperating with the yaw motor written before the pitch motor.
DoOperating_YawFirst(m, cfg, data) ==
  IF data.error
    THEN DoFault(m)
    ELSE
      LET m1 == [m EXCEPT !.data.last_ahrs_update = data.timestamp]
          m2 == GpioSet(m1, m1.data.torque_on)
          p == PidApply(cfg.pitch.pid, m2.data.pitch,
                        data.euler_deg.pitch, m2.data.desired_deg.pitch,
                        data.body_rate_dps.x, m2.data.desired_body_rate_dps.x,
                        data.rate_hz)
          y == PidApply(cfg.yaw.pid, m2.data.yaw,
                        data.euler_deg.yaw, m2.data.desired_deg.yaw,
                        data.body_rate_dps.z, m2.data.desired_body_rate_dps.z,
                        data.rate_hz)
          m3 == [m2 EXCEPT !.data.pitch = p.state,
                           !.data.yaw = y.state,
                           !.emitted = @ \o <<Event("pitch_pid", FALSE, Zero3),
                                              Event("yaw_pid", FALSE, Zero3)>>]
          m4 == BldcSet(m3, yaw_motor(cfg),
                        <<phase(y.command, 0), phase(y.command, 4),
                          phase(y.command, 8)>>)
      IN  BldcSet(m4, pitch_motor(cfg),
                  <<phase(p.command, 0), phase(p.command, 4),
                    phase(p.command, 8)>>)

DoOperating(m, cfg, data) ==
  IF data.error
    THEN DoFault(m)
    ELSE
      LET m1 == [m EXCEPT !.data.last_ahrs_update = data.timestamp]
          m2 == GpioSet(m1, m1.data.torque_on)
          p == PidApply(cfg.pitch.pid, m2.data.pitch,
                        data.euler_deg.pitch, m2.data.desired_deg.pitch,
                        data.body_rate_dps.x, m2.data.desired_body_rate_dps.x,
                        data.rate_hz)
          y == PidApply(cfg.yaw.pid, m2.data.yaw,
                        data.euler_deg.yaw, m2.data.desired_deg.yaw,
                        data.body_rate_dps.z, m2.data.desired_body_rate_dps.z,
                        data.rate_hz)
          m3 == [m2 EXCEPT !.data.pitch = p.state,
                           !.data.yaw = y.state,
                           !.emitted = @ \o <<Event("pitch_pid", FALSE, Zero3),
                                              Event("yaw_pid", FALSE, Zero3)>>]
          m4 == BldcSet(m3, pitch_motor(cfg),
                        <<phase(p.command, 0), phase(p.command, 4),
                          phase(p.command, 8)>>)
      IN  BldcSet(m4, yaw_motor(cfg),
                  <<phase(y.command, 0), phase(y.command, 4),
                    phase(y.command, 8)>>)

\* HandleAhrs's switch with kFault falling into the kInitializing case.
Dispatch_FaultRearms(m, cfg, data, now) ==
  CASE m.data.state \in {kInitializing, kFault} ->
         DoInitializing(m, cfg, data, now)
    [] m.data.state = kOperating -> DoOperating(m, cfg, data)
    [] m.data.state = kNumStates -> [m EXCEPT !.asserted = TRUE]

\* The switch of HandleAhrs with no handler called in kFault.
Dispatch_FaultIdle(m, cfg, data, now) ==
  CASE m.data.state = kInitializing -> DoInitializing(m, cfg, data, now)
    [] m.data.state = kOperating -> DoOperating(m, cfg, data)
    [] m.data.state = kFault -> m
    [] m.data.state = kNumStates -> [m EXCEPT !.asserted = TRUE]

Dispatch(m, cfg, data, now) ==
  CASE m.data.state = kInitializing -> DoInitializing(m, cfg, data, now)
    [] m.data.state = kOperating -> DoOperating(m, cfg, data)
    [] m.data.state = kFault -> DoFault(m)
    [] m.data.state = kNumStates -> [m EXCEPT !.asserted = TRUE]

\* HandleAhrs with data_updater_() called before the switch.
HandleAhrsCall_UpdaterFirst(m, cfg, data, now) ==
  Dispatch([m EXCEPT !.emitted = Append(@, Event("data_updater", FALSE, Zero3))],
           cfg, data, now)

HandleAhrsCall(m, cfg, data, now) ==
  LET m1 == Dispatch(m, cfg, data, now)
  IN  [m1 EXCEPT !.emitted = Append(@, Event("data_updater", FALSE, Zero3))]

\* PollMillisecond with >= for >.
PollMillisecondCall_NonStrict(m, cfg, now) ==
  CASE m.data.state = kOperating ->
         LET delta == U32Sub(now, m.data.last_ahrs_update)
             ticks == cfg.watchdog_period_s * ticks_per_second
         IN  IF \/ ElapsedExceeds(delta, cfg.watchdog_period_s)
                \/ ticks % 1000 = 0 /\ delta = <<0, ticks \div 1000>>
               THEN DoFault(m)
               ELSE m
    [] m.data.state \in {kInitializing, kFault} -> m
    [] m.data.state = kNumStates -> [m EXCEPT !.asserted = TRUE]

\* PollMillisecond with the kOperating case left empty.
PollMillisecondCall_NoWatchdog(m, cfg, now) ==
  CASE m.data.state \in {kInitializing, kOperating, kFault} -> m
    [] m.data.state = kNumStates -> [m EXCEPT !.asserted = TRUE]

\* PollMillisecond with the staleness check made in kInitializing too.
PollMillisecondCall_AnyState(m, cfg, now) ==
  CASE m.data.state \in {kInitializing, kOperating} ->
         IF ElapsedExceeds(U32Sub(now, m.data.last_ahrs_update),
                           cfg.watchdog_period_s)
           THEN DoFault(m)
           ELSE m
    [] m.data.state = kFault -> m
    [] m.data.state = kNumStates -> [m EXCEPT !.asserted = TRUE]

\* PollMillisecond with the telemetry updater called after a forced fault.
PollMillisecondCall_Publishes(m, cfg, now) ==
  CASE m.data.state = kOperating ->
         IF ElapsedExceeds(U32Sub(now, m.data.last_ahrs_update),
                           cfg.watchdog_period_s)
           THEN [DoFault(m) EXCEPT
                   !.emitted = Append(@, Event("data_updater", FALSE, Zero3))]
           ELSE m
    [] m.data.state \in {kInitializing, kFault} -> m
    [] m.data.state = kNumStates -> [m EXCEPT !.asserted = TRUE]

PollMillisecondCall(m, cfg, now) ==
  CASE m.data.state = kOperating ->
         IF ElapsedExceeds(U32Sub(now, m.data.last_ahrs_update),
                           cfg.watchdog_period_s)
           THEN DoFault(m)
           ELSE m
    [] m.data.state \in {kInitializing, kFault} -> m
    [] m.data.state = kNumStates -> [m EXCEPT !.asserted = TRUE]

-----------------------------------------------------------------------------
(* The state machine *)

Impl ==
  [data |-> data_, motor_enable |-> motor_enable_, motor1 |-> motor1_,
   motor2 |-> motor2_, asserted |-> asserted_, emitted |-> <<>>]

Snapshot ==
  [data |-> data_, motor_enable |-> motor_enable_, motor1 |-> motor1_,
   motor2 |-> motor2_]

Return(m) ==
  /\ data_' = m.data
  /\ motor_enable_' = m.motor_enable
  /\ motor1_' = m.motor1
  /\ motor2_' = m.motor2
  /\ asserted_' = m.asserted
  /\ emitted' = m.emitted
  /\ pre' = Snapshot

\* A HandleAhrs call in progress.  pc: the line about to run, "idle" between
\* calls; data: the sample; now: the local of line 100; pitch_command and
\* yaw_command: the locals of lines 123 and 127; preempted: a PollMillisecond
\* call ran inside the call (the last call, when idle) and forced Fault.
NoFrame ==
  [pc |-> "idle", data |-> NoSample, now |-> U32Zero,
   pitch_command |-> 0, yaw_command |-> 0, preempted |-> FALSE]

Goto(m, f, pc) == [m |-> m, f |-> [f EXCEPT !.pc = pc]]

\* The statement of HandleAhrs, or of the handler it called, at f.pc.
Statement(m, f, cfg, clock) ==
  CASE f.pc = "L78" ->
         (CASE m.data.state = kInitializing -> Goto(m, f, "L89")
            [] m.data.state = kOperating -> Goto(m, f, "L115")
            [] m.data.state = kFault -> Goto(m, f, "L153")
            [] m.data.state = kNumStates ->
                 Goto([m EXCEPT !.asserted = TRUE], f, "L85"))
    [] f.pc = "L89" -> Goto(GpioSet(m, FALSE), f, "L91")
    [] f.pc = "L91" -> Goto(m, f, IF f.data.error THEN "L92" ELSE "L96")
    [] f.pc = "L92" ->
         Goto([m EXCEPT !.data.start_timestamp = U32Zero], f, "L85")
    [] f.pc = "L96" ->
         Goto(m, f, IF m.data.start_timestamp = U32Zero THEN "L97" ELSE "L100")
    [] f.pc = "L97" ->
         Goto([m EXCEPT !.data.start_timestamp = clock], f, "L85")
    [] f.pc = "L100" -> Goto(m, [f EXCEPT !.now = clock], "L101")
    [] f.pc = "L101" ->
         Goto(m, f, IF ElapsedExceeds(U32Sub(f.now, m.data.start_timestamp),
                                      cfg.initialization_period_s)
                      THEN "L106" ELSE "L85")
    [] f.pc = "L106" -> Goto([m EXCEPT !.data.desired_deg.pitch = 0], f, "L107")
    [] f.pc = "L107" ->
         Goto([m EXCEPT !.data.desired_deg.yaw = f.data.euler_deg.yaw], f, "L108")
    [] f.pc = "L108" ->
         Goto([m EXCEPT !.data.last_ahrs_update = f.now], f, "L109")
    [] f.pc = "L109" -> Goto([m EXCEPT !.data.state = kOperating], f, "L85")
    [] f.pc = "L115" -> Goto(m, f, IF f.data.error THEN "L153" ELSE "L120")
    [] f.pc = "L120" ->
         Goto([m EXCEPT !.data.last_ahrs_update = f.data.timestamp], f, "L121")
    [] f.pc = "L121" -> Goto(GpioSet(m, m.data.torque_on), f, "L123")
    [] f.pc = "L123" ->
         LET p == PidApply(cfg.pitch.pid, m.data.pitch,
                           f.data.euler_deg.pitch, m.data.desired_deg.pitch,
                           f.data.body_rate_dps.x,
                           m.data.desired_body_rate_dps.x,
                           f.data.rate_hz)
         IN  Goto([m EXCEPT !.data.pitch = p.state,
                            !.emitted = Append(@, Event("pitch_pid", FALSE, Zero3))],
                  [f EXCEPT !.pitch_command = p.command], "L127")
    [] f.pc = "L127" ->
         LET y == PidApply(cfg.yaw.pid, m.data.yaw,
                           f.data.euler_deg.yaw, m.data.desired_deg.yaw,
                           f.data.body_rate_dps.z,
                           m.data.desired_body_rate_dps.z,
                           f.data.rate_hz)
         IN  Goto([m EXCEPT !.data.yaw = y.state,
                            !.emitted = Append(@, Event("yaw_pid", FALSE, Zero3))],
                  [f EXCEPT !.yaw_command = y.command], "L148")
    [] f.pc = "L148" ->
         Goto(BldcSet(m, pitch_motor(cfg),
                      <<phase(f.pitch_command, 0), phase(f.pitch_command, 4),
                        phase(f.pitch_command, 8)>>), f, "L149")
    [] f.pc = "L149" ->
         Goto(BldcSet(m, yaw_motor(cfg),
                      <<phase(f.yaw_command, 0), phase(f.yaw_command, 4),
                        phase(f.yaw_command, 8)>>), f, "L85")
    [] f.pc = "L153" -> Goto([m EXCEPT !.data.state = kFault], f, "L154")
    [] f.pc = "L154" -> Goto([m EXCEPT !.data.torque_on = FALSE], f, "L155")
    [] f.pc = "L155" -> Goto(GpioSet(m, FALSE), f, "L156")
    [] f.pc = "L156" -> Goto(BldcSet(m, 1, Zero3), f, "L157")
    [] f.pc = "L157" -> Goto(BldcSet(m, 2, Zero3), f, "L85")
    [] f.pc = "L85" ->
         Goto([m EXCEPT !.emitted = Append(@, Event("data_updater", FALSE, Zero3))],
              [NoFrame EXCEPT !.preempted = f.preempted], "idle")

\* What a run has shown so far.  timer_set: a sample set the arming timer,
\* at clock reading set_tick, and no error-flagged sample has been handled
\* since.  faithful: the stabilizer was armed, at accept_tick or before, every
\* sample accepted since bore the clock's reading as its timestamp and none
\* came later than watchdog_period_s after the one before it (or after
\* arming); accept_tick is then the clock reading of the last of them.
\* set_uptime: the ticks counted since construction when the timer was set.
\* stamped: arming or an accepted sample has stamped last_ahrs_update, and
\* stamp_uptime is the count of ticks since construction at which the clock
\* read that stamp (samples are stamped with the clock's reading or the one
\* before it).
NoHistory ==
  [timer_set |-> FALSE, set_tick |-> U32Zero, set_uptime |-> 0,
   faithful |-> FALSE, accept_tick |-> U32Zero,
   stamped |-> FALSE, stamp_uptime |-> 0]

Observe(h, before, after, data, now, cfg, up) ==
  IF before.state = kInitializing
    THEN IF data.error
           THEN [h EXCEPT !.timer_set = FALSE, !.set_tick = U32Zero,
                          !.set_uptime = 0]
         ELSE IF after.state = kOperating
           THEN [h EXCEPT !.faithful = TRUE, !.accept_tick = now,
                          !.stamped = TRUE, !.stamp_uptime = up]
         ELSE IF after.start_timestamp # before.start_timestamp
           THEN [h EXCEPT !.timer_set = TRUE, !.set_tick = now,
                          !.set_uptime = up]
         ELSE h
  ELSE IF before.state = kOperating /\ ~data.error
    THEN LET ok == /\ h.faithful
                   /\ data.timestamp = now
                   /\ ~ElapsedExceeds(U32Sub(now, h.accept_tick),
                                      cfg.watchdog_period_s)
         IN  [h EXCEPT !.faithful = ok,
                       !.accept_tick = IF ok THEN now ELSE U32Zero,
                       !.stamped = TRUE,
                       !.stamp_uptime = IF data.timestamp = now
                                          THEN up ELSE up - 1]
  ELSE h

\* The clock readings a stabilizer can be constructed at.
ClockStarts == {U32Zero, <<0, 1>>, <<Two16 - 1, Two16 - 3>>}

\* The scenario of section 8: on a fresh stabilizer with the default
\* configuration, an error-free sample at t = 0, an error-free sample with
\* yaw 45 at t = 1.1 s, then a poll at t = 1.25 s.
ScenarioSample2 == (11 * ticks_per_second) \div 10
ScenarioPoll == (125 * ticks_per_second) \div 100

Init ==
  /\ config_ \in PersistedConfigs
  /\ \E state \in State : data_ = Data(state)
  /\ clock_ \in ClockStarts
  /\ motor_enable_ = FALSE
  /\ motor1_ = Zero3
  /\ motor2_ = Zero3
  /\ asserted_ = FALSE
  /\ ahrs_connected = TRUE
  /\ uptime = 0
  /\ call = "Impl"
  /\ sample = NoSample
  /\ pre = Snapshot
  /\ emitted = <<>>
  /\ history = NoHistory
  /\ frame = NoFrame
  /\ scenario = IF /\ config_ = DefaultConfig
                   /\ clock_ = U32Zero
                   /\ data_.state = kInitializing
                  THEN "fresh" ELSE "off"

\* The watchdog is due: the comparison of PollMillisecond at this clock.
Stale ==
  ElapsedExceeds(U32Sub(clock_, data_.last_ahrs_update),
                 config_.watchdog_period_s)

\* The run is inside its horizon; past it the clock runs on only until a
\* pending watchdog is due.
InHorizon == uptime < Horizon(config_)

ClockRuns == IF InHorizon THEN TRUE ELSE data_.state = kOperating /\ ~Stale

\* The clock advances by one tick.
Tick ==
  /\ ClockRuns
  /\ clock_' = U32Add(clock_, 1)
  /\ uptime' = uptime + 1
  /\ call' = "Tick"
  /\ sample' = NoSample
  /\ pre' = Snapshot
  /\ emitted' = <<>>
  /\ UNCHANGED <<config_, data_, motor_enable_, motor1_, motor2_, asserted_,
                 ahrs_connected, scenario, history, frame>>

HandleAhrs ==
  /\ ahrs_connected
  /\ InHorizon
  /\ frame.pc = "idle"
  /\ \E data \in AhrsSamples(clock_) :
       /\ Return(HandleAhrsCall(Impl, config_, data, clock_))
       /\ sample' = data
       /\ history' = Observe(history, data_, data_', data, clock_, config_,
                               uptime)
       /\ scenario' =
            IF scenario = "fresh" /\ uptime = 0 /\ ~data.error
              THEN "sample1"
            ELSE IF /\ scenario = "sample1"
                    /\ uptime = ScenarioSample2
                    /\ ~data.error
                    /\ data.euler_deg.yaw = 45
              THEN "sample2"
            ELSE "off"
  /\ call' = "HandleAhrs"
  /\ UNCHANGED <<config_, clock_, ahrs_connected, uptime, frame>>

PollMillisecond ==
  /\ Return(PollMillisecondCall(Impl, config_, clock_))
  /\ call' = "PollMillisecond"
  /\ sample' = NoSample
  /\ scenario' = IF scenario = "sample2" /\ uptime = ScenarioPoll
                   THEN "polled" ELSE "off"
  /\ frame' = IF frame.pc = "idle"
                THEN frame
                ELSE [frame EXCEPT !.preempted =
                        @ \/ (data_.state = kOperating /\ data_'.state = kFault)]
  /\ UNCHANGED <<config_, clock_, ahrs_connected, uptime, history>>

Next == Tick \/ HandleAhrs \/ PollMillisecond

Spec == Init /\ [][Next]_vars

\* The sensor drops out: the AHRS signal delivers nothing from here on.
Disconnect ==
  /\ ahrs_connected
  /\ ahrs_connected' = FALSE
  /\ call' = "Disconnect"
  /\ sample' = NoSample
  /\ pre' = Snapshot
  /\ emitted' = <<>>
  /\ UNCHANGED <<config_, data_, clock_, motor_enable_, motor1_, motor2_,
                 asserted_, uptime, scenario, history, frame>>

\* The AHRS signal calls HandleAhrs: the call is now in progress.
Enter ==
  /\ ahrs_connected
  /\ InHorizon
  /\ frame.pc = "idle"
  /\ \E data \in AhrsSamples(clock_) :
       /\ frame' = [NoFrame EXCEPT !.pc = "L78", !.data = data]
       /\ sample' = data
  /\ call' = "Enter"
  /\ pre' = Snapshot
  /\ emitted' = <<>>
  /\ scenario' = "off"
  /\ UNCHANGED <<config_, data_, clock_, motor_enable_, motor1_, motor2_,
                 asserted_, ahrs_connected, uptime, history>>

\* The call in progress runs one statement.
Proceed ==
  /\ frame.pc # "idle"
  /\ LET r == Statement(Impl, frame, config_, clock_)
     IN  Return(r.m) /\ frame' = r.f
  /\ call' = "Proceed"
  /\ sample' = frame.data
  /\ scenario' = "off"
  /\ UNCHANGED <<config_, clock_, ahrs_connected, uptime, history>>

\* The two entry points called from different execution contexts: a
\* PollMillisecond call, or a tick of the clock, can come between any two
\* statements of a HandleAhrs call.
NextPreempt == Tick \/ Enter \/ Proceed \/ PollMillisecond

\* The runs followed statement by statement: those of the configurations
\* that arm at once or within two ticks, from a clock that does not read 0.
PreemptConfigs ==
  {[DefaultConfig EXCEPT !.initialization_period_s = 0],
   [DefaultConfig EXCEPT !.initialization_period_s = 100,
                         !.pitch.motor = 2, !.yaw.motor = 1]}

InitPreempt ==
  /\ Init
  /\ config_ \in PreemptConfigs
  /\ clock_ = <<0, 1>>

SpecPreempt == InitPreempt /\ [][NextPreempt]_vars

NextDropout == Next \/ Disconnect

\* The clock is monotonic and the scheduler calls PollMillisecond every
\* millisecond: neither is postponed forever.
SpecDropout ==
  Init /\ [][NextDropout]_vars /\ WF_vars(Tick) /\ WF_vars(PollMillisecond)

\* The sensor keeps delivering error-free samples: one is handled now.
GoodSample ==
  /\ ahrs_connected
  /\ frame.pc = "idle"
  /\ \E data \in AhrsSamples(clock_) :
       /\ ~data.error
       /\ Return(HandleAhrsCall(Impl, config_, data, clock_))
       /\ sample' = data
       /\ history' = Observe(history, data_, data_', data, clock_, config_,
                               uptime)
  /\ scenario' = "off"
  /\ call' = "HandleAhrs"
  /\ UNCHANGED <<config_, clock_, ahrs_connected, uptime, frame>>

\* The clock advances by one tick between two samples.
ArmingTick == call = "HandleAhrs" /\ InHorizon /\ Tick

\* The ticks a run past its horizon advances by between two samples.
Epoch == 2^30

\* Past the horizon the clock advances by an epoch between two samples;
\* uptime, which counts the ticks of the horizon, stays.
Advance ==
  /\ call = "HandleAhrs"
  /\ ~InHorizon
  /\ clock_' = U32Add(clock_, Epoch)
  /\ call' = "Advance"
  /\ sample' = NoSample
  /\ pre' = Snapshot
  /\ emitted' = <<>>
  /\ UNCHANGED <<config_, data_, motor_enable_, motor1_, motor2_, asserted_,
                 ahrs_connected, uptime, scenario, history, frame>>

\* The initialization periods a persisted configuration can hold: none, a
\* tenth of a second, the default second, and the largest finite float.
ArmingConfigs ==
  {[DefaultConfig EXCEPT !.initialization_period_s = p] :
     p \in {0, 100, 1000, FLT_MAX}}

InitArming ==
  /\ config_ \in ArmingConfigs
  /\ \E state \in State : data_ = Data(state)
  /\ clock_ \in ClockStarts
  /\ motor_enable_ = FALSE
  /\ motor1_ = Zero3
  /\ motor2_ = Zero3
  /\ asserted_ = FALSE
  /\ ahrs_connected = TRUE
  /\ uptime = 0
  /\ call = "Impl"
  /\ sample = NoSample
  /\ pre = Snapshot
  /\ emitted = <<>>
  /\ scenario = "fresh"
  /\ history = NoHistory
  /\ frame = NoFrame

NextArming == GoodSample \/ ArmingTick \/ Advance

\* Error-free samples keep arriving, which GoodSample, enabled in every
\* state, makes the same as its weak fairness, and the clock keeps advancing
\* between them.
SpecArming ==
  /\ InitArming
  /\ [][NextArming]_vars
  /\ []<><<GoodSample>>_vars
  /\ WF_vars(ArmingTick)
  /\ WF_vars(Advance)

-----------------------------------------------------------------------------
(* What the claims speak of *)


\* The last step was a HandleAhrs call, and `sample' is what it was given.
Handled == call = "HandleAhrs"

\* The last step was a PollMillisecond call.
Polled == call = "PollMillisecond"

Made(events, e) == \E i \in 1 .. Len(events) : events[i] = e

PidEvaluated(events) ==
  \E i \in 1 .. Len(events) : events[i].dev \in {"pitch_pid", "yaw_pid"}

OutputsSafe == motor1_ = Zero3 /\ motor2_ = Zero3 /\ motor_enable_ = FALSE

\* The stabilizer went from Initializing to Operating in this run: only
\* DoInitializing sets start_timestamp, and nothing resets it afterwards.
Armed ==
  data_.state \in {kOperating, kFault} /\ data_.start_timestamp # U32Zero

\* The configured watchdog period in ticks, where it is a whole number.
WatchdogTicks == (config_.watchdog_period_s * ticks_per_second) \div 1000

WatchdogWhole == (config_.watchdog_period_s * ticks_per_second) % 1000 = 0

-----------------------------------------------------------------------------
\* C1: in every reachable state, if the state is not Operating then both
\* motor channels hold (0,0,0) and the enable line is false.
C1_OutputsZeroUnlessOperating ==
  data_.state # kOperating => OutputsSafe

\* A Fault entered from Operating with a motor driven.
C1_Witness ==
  /\ Armed
  /\ data_.state = kFault
  /\ pre.data.state = kOperating
  /\ pre.motor1 # Zero3
  /\ pre.motor2 # Zero3

\* C2: Fault is absorbing: no sample and no poll leaves Fault.
C2_FaultAbsorbing ==
  [][data_.state = kFault => data_'.state = kFault]_vars

\* An error-free sample handled in a Fault that followed Operating.
C2_Witness ==
  /\ Armed
  /\ Handled
  /\ ~sample.error
  /\ pre.data.state = kFault
  /\ data_.state = kFault

\* C3: an error-flagged sample handled in Operating leaves the state Fault,
\* torque_on false, both motors Set(0,0,0) and the enable line set false,
\* evaluates no PID and does not change last_ahrs_update.
C3_ErrorInOperatingFaults ==
  [][(call' = "HandleAhrs" /\ sample'.error /\ data_.state = kOperating) =>
       /\ data_'.state = kFault
       /\ data_'.torque_on = FALSE
       /\ Made(emitted', Event("motor1", FALSE, Zero3))
       /\ Made(emitted', Event("motor2", FALSE, Zero3))
       /\ Made(emitted', Event("motor_enable", FALSE, Zero3))
       /\ motor1_' = Zero3 /\ motor2_' = Zero3 /\ motor_enable_' = FALSE
       /\ ~PidEvaluated(emitted')
       /\ data_'.last_ahrs_update = data_.last_ahrs_update]_vars

\* An error-flagged sample that found Operating with both motors driven and
\* a timestamp other than the recorded one.
C3_Witness ==
  /\ Armed
  /\ Handled
  /\ sample.error
  /\ pre.data.state = kOperating
  /\ pre.motor1 # Zero3 /\ pre.motor2 # Zero3
  /\ sample.timestamp # pre.data.last_ahrs_update
  /\ data_.state = kFault

\* C4: with state Operating, last_ahrs_update = T and a watchdog period of
\* W seconds, a poll at tick T + W*ticks_per_second + 1 faults, and a poll
\* at tick T + W*ticks_per_second - 1 or at T + W*ticks_per_second does not.
C4_WatchdogBoundary ==
  [][(call' = "PollMillisecond" /\ data_.state = kOperating /\ WatchdogWhole) =>
       LET T == data_.last_ahrs_update
       IN  /\ clock_ = U32Add(T, WatchdogTicks + 1) => data_'.state = kFault
           /\ clock_ = U32Add(T, WatchdogTicks - 1) => data_'.state = kOperating
           /\ clock_ = U32Add(T, WatchdogTicks) => data_'.state = kOperating]_vars

\* A poll one tick past the period that faulted.
C4_Witness ==
  /\ Armed
  /\ Polled
  /\ pre.data.state = kOperating
  /\ WatchdogWhole
  /\ clock_ = U32Add(pre.data.last_ahrs_update, WatchdogTicks + 1)
  /\ data_.state = kFault

\* A poll exactly at the period that did not fault.
C4_WitnessAtPeriod ==
  /\ Armed
  /\ Polled
  /\ pre.data.state = kOperating
  /\ WatchdogWhole
  /\ clock_ = U32Add(pre.data.last_ahrs_update, WatchdogTicks)
  /\ data_.state = kOperating

\* C5: once Operating with the sensor gone, the clock advancing and the poll
\* being called, the state becomes Fault; a poll in Operating faults exactly
\* when the time since last_ahrs_update exceeds watchdog_period_s; and from
\* the return of that poll on both motors hold (0,0,0), enable is false and
\* torque_on is false.
C5_StaleDataFaults ==
  /\ (data_.state = kOperating /\ ~ahrs_connected) ~> (data_.state = kFault)
  /\ [][(call' = "PollMillisecond" /\ data_.state = kOperating) =>
          (data_'.state = kFault <=> Stale)]_vars
  /\ [][(data_.state = kFault \/ data_'.state = kFault) =>
          /\ data_'.state = kFault
          /\ motor1_' = Zero3 /\ motor2_' = Zero3
          /\ motor_enable_' = FALSE
          /\ data_'.torque_on = FALSE]_vars

\* The watchdog faulted a driven, armed stabilizer after the sensor dropped
\* out.
C5_Witness ==
  /\ Armed
  /\ ~ahrs_connected
  /\ Polled
  /\ pre.data.state = kOperating
  /\ pre.motor1 # Zero3 /\ pre.motor2 # Zero3
  /\ data_.state = kFault

\* C6: on a fresh stabilizer with initialization_period_s = 1.0 and
\* watchdog_period_s = 0.1, after an error-free sample at clock time 0 and an
\* error-free sample with yaw 45 at 1.1 s the state is Operating with
\* desired_deg = {pitch 0, yaw 45}; after a poll at 1.25 s with no sample in
\* between the state is Fault with both motors at (0,0,0).
C6_Scenario ==
  /\ scenario = "sample2" =>
       /\ data_.state = kOperating
       /\ data_.desired_deg.pitch = 0
       /\ data_.desired_deg.yaw = 45
  /\ scenario = "polled" =>
       /\ data_.state = kFault
       /\ motor1_ = Zero3 /\ motor2_ = Zero3

\* C7: in Initializing with the timer started, an error-free sample for
\* which (now - start_timestamp) / ticks_per_second exceeds
\* initialization_period_s moves the state to Operating, sets desired_deg to
\* {pitch 0, yaw of the sample} and last_ahrs_update to the clock's tick; and
\* no step enters Initializing, so the stabilizer arms at most once.
C7_Arming ==
  /\ [][(/\ call' = "HandleAhrs"
          /\ ~sample'.error
          /\ data_.state = kInitializing
          /\ data_.start_timestamp # U32Zero
          /\ ElapsedExceeds(U32Sub(clock_, data_.start_timestamp),
                            config_.initialization_period_s)) =>
          /\ data_'.state = kOperating
          /\ data_'.desired_deg.pitch = 0
          /\ data_'.desired_deg.yaw = sample'.euler_deg.yaw
          /\ data_'.last_ahrs_update = clock_]_vars
  /\ [][data_'.state = kInitializing => data_.state = kInitializing]_vars

\* An arming sample with yaw 45, stamped one tick before the clock's tick.
C7_Witness ==
  /\ Handled
  /\ pre.data.state = kInitializing
  /\ data_.state = kOperating
  /\ sample.euler_deg.yaw = 45
  /\ sample.timestamp # clock_

\* C8: an error-free sample handled in Initializing whose elapsed time since
\* start_timestamp is at most initialization_period_s leaves the state
\* Initializing, writes no motor channel with a non-zero command and leaves
\* the enable line false.
C8_NoArmingWithinPeriod ==
  [][(/\ call' = "HandleAhrs"
      /\ ~sample'.error
      /\ data_.state = kInitializing
      /\ ~ElapsedExceeds(U32Sub(clock_, data_.start_timestamp),
                         config_.initialization_period_s)) =>
      /\ data_'.state = kInitializing
      /\ \A i \in 1 .. Len(emitted') :
           emitted'[i].dev \in {"motor1", "motor2"} => emitted'[i].pwm = Zero3
      /\ motor1_' = Zero3 /\ motor2_' = Zero3
      /\ motor_enable_' = FALSE]_vars

\* An error-free sample handled when the elapsed time was exactly the
\* initialization period.
C8_Witness ==
  /\ Handled
  /\ ~sample.error
  /\ pre.data.state = kInitializing
  /\ pre.data.start_timestamp # U32Zero
  /\ config_.initialization_period_s > 0
  /\ U32Sub(clock_, pre.data.start_timestamp) =
       <<0, (config_.initialization_period_s * ticks_per_second) \div 1000>>
  /\ data_.state = kInitializing

\* C9: an error-flagged sample handled in Initializing leaves the state
\* Initializing and start_timestamp 0, whether or not the timer was started.
C9_ErrorRestartsTimer ==
  [][(call' = "HandleAhrs" /\ sample'.error /\ data_.state = kInitializing) =>
       /\ data_'.state = kInitializing
       /\ data_'.start_timestamp = U32Zero]_vars

\* An error-flagged sample that found the timer started.
C9_Witness ==
  /\ Handled
  /\ sample.error
  /\ pre.data.state = kInitializing
  /\ pre.data.start_timestamp # U32Zero
  /\ data_.start_timestamp = U32Zero

\* C10: a poll in Initializing or Fault changes no field of Data, not the
\* enable line and neither motor output, whatever the clock reads.
C10_PollIdleOutsideOperating ==
  [][(call' = "PollMillisecond" /\ data_.state \in {kInitializing, kFault}) =>
       /\ UNCHANGED <<data_, motor_enable_, motor1_, motor2_>>
       /\ emitted' = <<>>]_vars

\* A poll in Initializing at a clock reading at which the watchdog would have
\* been due.
C10_Witness ==
  /\ Polled
  /\ pre.data.state = kInitializing
  /\ data_.start_timestamp # U32Zero
  /\ Stale

\* The telemetry updater's call.
Updater == Event("data_updater", FALSE, Zero3)

Count(events, e) == Cardinality({i \in 1 .. Len(events) : events[i] = e})

\* C11: a HandleAhrs call handled by DoInitializing, DoOperating or DoFault
\* calls the telemetry updater exactly once, after every actuator write and
\* PID evaluation of the handler.
C11_UpdaterOnceAfterHandler ==
  [][(call' = "HandleAhrs" /\ data_.state \in {kInitializing, kOperating, kFault}) =>
       /\ Count(emitted', Updater) = 1
       /\ emitted'[Len(emitted')] = Updater]_vars

\* The call that took Operating to Fault: enable, two motor writes, then the
\* updater.
C11_Witness ==
  /\ Handled
  /\ Armed
  /\ sample.error
  /\ pre.data.state = kOperating
  /\ data_.state = kFault
  /\ Len(emitted) = 4
  /\ emitted[4] = Updater

\* C12 as claimed: last_ahrs_update is changed only by an error-free sample
\* handled in Operating.
C12_OnlyInOperating ==
  [][data_'.last_ahrs_update # data_.last_ahrs_update =>
       /\ call' = "HandleAhrs"
       /\ ~sample'.error
       /\ data_.state = kOperating]_vars

\* C12 amended: last_ahrs_update is changed only by an error-free sample:
\* handled in Operating, which sets it to the sample's timestamp, or the one
\* that arms the stabilizer, which sets it to the clock's tick.
C12_OnlyAcceptedOrArming ==
  [][data_'.last_ahrs_update # data_.last_ahrs_update =>
       /\ call' = "HandleAhrs"
       /\ ~sample'.error
       /\ \/ /\ data_.state = kOperating
             /\ data_'.last_ahrs_update = sample'.timestamp
          \/ /\ data_.state = kInitializing
             /\ data_'.state = kOperating
             /\ data_'.last_ahrs_update = clock_]_vars

\* The arming sample changed last_ahrs_update.
C12_Witness ==
  /\ Handled
  /\ pre.data.state = kInitializing
  /\ data_.state = kOperating
  /\ data_.last_ahrs_update # pre.data.last_ahrs_update

\* C13: a freshly constructed stabilizer is in state Initializing with
\* start_timestamp = 0, last_ahrs_update = 0 and torque_on = false.
C13_FreshIsInitializing ==
  call = "Impl" =>
    /\ data_.state = kInitializing
    /\ data_.start_timestamp = U32Zero
    /\ data_.last_ahrs_update = U32Zero
    /\ data_.torque_on = FALSE

\* The three phases DoOperating writes for a command.
Phases(command) == <<phase(command, 0), phase(command, 4), phase(command, 8)>>

\* The write BldcPwm::Set makes on a motor.
Written(motor, pwm) == Event(IF motor = 1 THEN "motor1" ELSE "motor2", FALSE, pwm)

\* The commands of the two PIDs for the sample being handled.
PitchCommand ==
  PidApply(config_.pitch.pid, data_.pitch,
           sample'.euler_deg.pitch, data_.desired_deg.pitch,
           sample'.body_rate_dps.x, data_.desired_body_rate_dps.x,
           sample'.rate_hz).command

YawCommand ==
  PidApply(config_.yaw.pid, data_.yaw,
           sample'.euler_deg.yaw, data_.desired_deg.yaw,
           sample'.body_rate_dps.z, data_.desired_body_rate_dps.z,
           sample'.rate_hz).command

\* C14: an error-free sample handled in Operating sets last_ahrs_update to the
\* sample's timestamp, sets the enable line to torque_on, evaluates the pitch
\* and the yaw PID once each, writes the pitch command's phases to the motor
\* configured for pitch and the yaw command's phases to the motor configured
\* for yaw, and leaves the state Operating.
C14_AcceptedSampleInOperating ==
  [][(call' = "HandleAhrs" /\ ~sample'.error /\ data_.state = kOperating) =>
       /\ data_'.last_ahrs_update = sample'.timestamp
       /\ data_'.state = kOperating
       /\ motor_enable_' = data_.torque_on
       /\ emitted' =
            <<Event("motor_enable", data_.torque_on, Zero3),
              Event("pitch_pid", FALSE, Zero3),
              Event("yaw_pid", FALSE, Zero3),
              Written(pitch_motor(config_), Phases(PitchCommand)),
              Written(yaw_motor(config_), Phases(YawCommand)),
              Updater>>
       /\ (pitch_motor(config_) = 1 /\ yaw_motor(config_) = 2) =>
            motor1_' = Phases(PitchCommand) /\ motor2_' = Phases(YawCommand)
       /\ (pitch_motor(config_) = 2 /\ yaw_motor(config_) = 1) =>
            motor2_' = Phases(PitchCommand) /\ motor1_' = Phases(YawCommand)]_vars

\* An accepted sample in Operating, after arming, with pitch on motor2 and yaw
\* on motor1 and the two commands different.
C14_Witness ==
  /\ Handled
  /\ Armed
  /\ ~sample.error
  /\ pre.data.state = kOperating
  /\ data_.state = kOperating
  /\ data_.last_ahrs_update = sample.timestamp
  /\ data_.last_ahrs_update # pre.data.last_ahrs_update
  /\ pitch_motor(config_) = 2
  /\ yaw_motor(config_) = 1
  /\ motor1_ # motor2_
  /\ Made(emitted, Event("motor2", FALSE, motor2_))

\* Every value a uint8_t motor field can hold.
MotorIds == 0 .. 255

\* C15: the pitch axis drives motor1 unless pitch.motor is 2, the yaw axis
\* drives motor2 unless yaw.motor is 1, whatever value the field holds (the
\* lookup is a function of the field alone, so it is evaluated over all 256
\* values once per run, on the first step), and the motor an axis drives is
\* the same in every step of a run.
C15_ChannelLookup ==
  [][/\ call = "Impl" =>
          \A v \in MotorIds :
            /\ pitch_motor([config_ EXCEPT !.pitch.motor = v]) = IF v = 2 THEN 2 ELSE 1
            /\ yaw_motor([config_ EXCEPT !.yaw.motor = v]) = IF v = 1 THEN 1 ELSE 2
     /\ pitch_motor(config_') = pitch_motor(config_)
     /\ yaw_motor(config_') = yaw_motor(config_)
     /\ (call' = "HandleAhrs" /\ ~sample'.error /\ data_.state = kOperating) =>
          /\ emitted'[4].dev = IF config_.pitch.motor = 2 THEN "motor2" ELSE "motor1"
          /\ emitted'[5].dev = IF config_.yaw.motor = 1 THEN "motor1" ELSE "motor2"]_vars

\* Both motor fields hold values that name no motor, and an accepted sample
\* drove pitch on motor1 and yaw on motor2.
C15_Witness ==
  /\ Handled
  /\ Armed
  /\ ~sample.error
  /\ pre.data.state = kOperating
  /\ config_.pitch.motor \notin {1, 2}
  /\ config_.yaw.motor \notin {1, 2}
  /\ emitted[4].dev = "motor1"
  /\ emitted[5].dev = "motor2"
  /\ motor1_ # Zero3
  /\ motor2_ # Zero3

\* C16: in every reachable state the state field is one of Initializing,
\* Operating and Fault, and no assert(false) has been reached.
C16_NeverAsserts ==
  /\ data_.state \in {kInitializing, kOperating, kFault}
  /\ ~asserted_

\* The values a uint16_t phase can take.
PhaseRange == 0 .. 65535

\* The commands a PID can produce: within its output limit.
Commands == (0 - PidConfig.limit) .. PidConfig.limit

\* C17: every phase value written to a motor lies in [0, 65535], and so does
\* each of the three phases of every command a PID can produce (the mapping
\* is a function of the command alone, so it is evaluated over all commands
\* once per run, at construction).
C17_PhaseBounds ==
  /\ \A i \in 1 .. 3 : motor1_[i] \in PhaseRange /\ motor2_[i] \in PhaseRange
  /\ call = "Impl" =>
       \A command \in Commands :
         \A i \in 1 .. 3 : Phases(command)[i] \in PhaseRange

\* An accepted sample in Operating wrote the largest value of the mapping.
C17_Witness ==
  /\ Handled
  /\ Armed
  /\ ~sample.error
  /\ pre.data.state = kOperating
  /\ \E i \in 1 .. 3 : motor1_[i] = 65534 \/ motor2_[i] = 65534
  /\ \E i \in 1 .. 3 : motor1_[i] = 0 \/ motor2_[i] = 0

\* The pitch PID is at rest for the sample being handled.
PitchAtRest ==
  /\ sample'.euler_deg.pitch = data_.desired_deg.pitch
  /\ sample'.body_rate_dps.x = data_.desired_body_rate_dps.x
  /\ data_.pitch.integral = 0

\* The yaw PID is at rest for the sample being handled.
YawAtRest ==
  /\ sample'.euler_deg.yaw = data_.desired_deg.yaw
  /\ sample'.body_rate_dps.z = data_.desired_body_rate_dps.z
  /\ data_.yaw.integral = 0

\* C18: on an error-free sample in Operating, a PID whose measured position
\* and rate equal the desired ones and whose integrator is zero gives the
\* zero command: the phases of command 0 are written to its motor and its
\* integrator stays zero.
C18_PidAtRest ==
  [][(call' = "HandleAhrs" /\ ~sample'.error /\ data_.state = kOperating) =>
       /\ PitchAtRest =>
            /\ PitchCommand = 0
            /\ emitted'[4] = Written(pitch_motor(config_), Phases(0))
            /\ data_'.pitch.integral = 0
       /\ YawAtRest =>
            /\ YawCommand = 0
            /\ emitted'[5] = Written(yaw_motor(config_), Phases(0))
            /\ data_'.yaw.integral = 0]_vars

\* Both PIDs at rest on an accepted sample, with the yaw setpoint latched at
\* 45 degrees by arming: both motors hold the phases of the zero command.
C18_Witness ==
  /\ Handled
  /\ Armed
  /\ ~sample.error
  /\ pre.data.state = kOperating
  /\ sample.euler_deg.pitch = pre.data.desired_deg.pitch
  /\ sample.euler_deg.yaw = pre.data.desired_deg.yaw
  /\ pre.data.desired_deg.yaw = 45
  /\ pre.data.pitch.integral = 0
  /\ pre.data.yaw.integral = 0
  /\ motor1_ = Phases(0)
  /\ motor2_ = Phases(0)

\* C19: a step changes the state only from Initializing to Operating, on an
\* error-free sample, or from Operating to Fault, on an error-flagged sample
\* or a poll.
C19_OnlyTwoTransitions ==
  [][data_'.state # data_.state =>
       \/ /\ data_.state = kInitializing
          /\ data_'.state = kOperating
          /\ call' = "HandleAhrs"
          /\ ~sample'.error
       \/ /\ data_.state = kOperating
          /\ data_'.state = kFault
          /\ \/ call' = "HandleAhrs" /\ sample'.error
             \/ call' = "PollMillisecond"]_vars

\* Both transitions in one run: armed by a sample with a zero
\* initialization period, then faulted by a poll.
C19_Witness ==
  /\ Polled
  /\ Armed
  /\ config_.initialization_period_s = 0
  /\ pre.data.state = kOperating
  /\ data_.state = kFault

\* C20: an error-free sample handled in Initializing with start_timestamp 0
\* leaves the state Initializing and stores the clock's tick, whatever the
\* initialization period; so a step that arms had start_timestamp set by an
\* earlier sample.
C20_TimerStartNeverArms ==
  [][/\ (/\ call' = "HandleAhrs"
         /\ ~sample'.error
         /\ data_.state = kInitializing
         /\ data_.start_timestamp = U32Zero) =>
          /\ data_'.state = kInitializing
          /\ data_'.start_timestamp = clock_
     /\ (data_.state = kInitializing /\ data_'.state = kOperating) =>
          data_.start_timestamp # U32Zero]_vars

\* With a negative initialization period, the sample that started the timer
\* left the state Initializing.
C20_Witness ==
  /\ Handled
  /\ ~sample.error
  /\ config_.initialization_period_s < 0
  /\ pre.data.state = kInitializing
  /\ pre.data.start_timestamp = U32Zero
  /\ data_.state = kInitializing
  /\ data_.start_timestamp # U32Zero

\* The initialization period in ticks, rounded down.
InitializationTicks ==
  (config_.initialization_period_s * ticks_per_second) \div 1000

\* C21: whenever a step takes the state from Initializing to Operating, a
\* sample set the arming timer, no error-flagged sample was handled between
\* that sample and this one, and the clock advanced by more than
\* initialization_period_s between the two; an error-flagged sample handled
\* in Initializing clears the timer.
C21_ArmingNeedsCleanRun ==
  [][/\ (data_.state = kInitializing /\ data_'.state = kOperating) =>
          /\ call' = "HandleAhrs"
          /\ ~sample'.error
          /\ history.timer_set
          /\ ElapsedExceeds(U32Sub(clock_, history.set_tick),
                            config_.initialization_period_s)
     /\ (call' = "HandleAhrs" /\ sample'.error /\ data_.state = kInitializing) =>
          /\ data_'.state = kInitializing
          /\ data_'.start_timestamp = U32Zero]_vars

\* Armed later than the period after construction allows for, on a timer set
\* by a sample during the run.
C21_Witness ==
  /\ Handled
  /\ ~sample.error
  /\ pre.data.state = kInitializing
  /\ data_.state = kOperating
  /\ history.timer_set
  /\ history.set_tick = data_.start_timestamp
  /\ InitializationTicks > 0
  /\ uptime > InitializationTicks + 3

\* C22: after every step the enable line is true only if the state is
\* Operating and torque_on is true, and a write of true to the enable line is
\* made only by an error-free sample handled in Operating.
C22_EnableOnlyWhenOperating ==
  [][/\ motor_enable_' => (data_'.state = kOperating /\ data_'.torque_on)
     /\ Made(emitted', Event("motor_enable", TRUE, Zero3)) =>
          /\ call' = "HandleAhrs"
          /\ ~sample'.error
          /\ data_.state = kOperating]_vars

\* An accepted sample drove the motors and wrote the enable line, false as
\* torque_on is.
C22_Witness ==
  /\ Handled
  /\ Armed
  /\ ~sample.error
  /\ pre.data.state = kOperating
  /\ Made(emitted, Event("motor_enable", FALSE, Zero3))
  /\ ~data_.torque_on
  /\ ~motor_enable_
  /\ motor1_ # Zero3

\* C23: while every accepted sample since arming bore the clock's reading and
\* came no later than watchdog_period_s after the one before it (or after
\* arming), a poll made no later than watchdog_period_s after the last of
\* them leaves the state Operating.
C23_NoSpuriousFault ==
  [][(/\ call' = "PollMillisecond"
      /\ data_.state = kOperating
      /\ history.faithful
      /\ ~ElapsedExceeds(U32Sub(clock_, history.accept_tick),
                         config_.watchdog_period_s)) =>
       data_'.state = kOperating]_vars

\* A poll exactly watchdog_period_s after the last accepted sample of such a
\* run, which left the state Operating.
C23_Witness ==
  /\ Polled
  /\ Armed
  /\ history.faithful
  /\ pre.data.state = kOperating
  /\ data_.state = kOperating
  /\ WatchdogWhole
  /\ WatchdogTicks > 0
  /\ U32Sub(clock_, history.accept_tick) = <<0, WatchdogTicks>>
  /\ history.accept_tick = data_.last_ahrs_update
  /\ motor1_ # Zero3

\* The stabilizer as the step being taken leaves it, about to be called again.
ImplAfter ==
  [data |-> data_', motor_enable |-> motor_enable_', motor1 |-> motor1_',
   motor2 |-> motor2_', asserted |-> asserted_', emitted |-> <<>>]

\* C24: a sample handled in Fault, error-flagged or not, leaves Data as it
\* was, with state Fault and torque_on false, and sets the enable line false
\* and both motors to (0,0,0); handling any sample again right after changes
\* nothing and makes the same calls.
C24_FaultSampleIdempotent ==
  [][(call' = "HandleAhrs" /\ data_.state = kFault) =>
       /\ data_' = data_
       /\ data_'.state = kFault
       /\ ~data_'.torque_on
       /\ emitted' = <<Event("motor_enable", FALSE, Zero3),
                       Event("motor1", FALSE, Zero3),
                       Event("motor2", FALSE, Zero3),
                       Updater>>
       /\ motor_enable_' = FALSE /\ motor1_' = Zero3 /\ motor2_' = Zero3
       /\ \A again \in AhrsSamples(clock_) :
            LET twice == HandleAhrsCall(ImplAfter, config_, again, clock_)
            IN  /\ twice.data = data_'
                /\ twice.motor_enable = motor_enable_'
                /\ twice.motor1 = motor1_'
                /\ twice.motor2 = motor2_'
                /\ twice.emitted = emitted']_vars

\* An error-free sample handled in Fault, the PIDs' integrators as the fault
\* left them.
C24_Witness ==
  /\ Handled
  /\ Armed
  /\ ~sample.error
  /\ pre.data.state = kFault
  /\ data_ = pre.data
  /\ data_.pitch.integral # 0
  /\ OutputsSafe
  /\ Len(emitted) = 4

\* C26: no step changes torque_on from false to true, and no step leaves the
\* enable line true.
C26_TorqueNeverGranted ==
  [][/\ ~data_.torque_on => ~data_'.torque_on
     /\ ~motor_enable_'
     /\ ~Made(emitted', Event("motor_enable", TRUE, Zero3))]_vars

\* DoFault's write of torque_on, on the error-flagged sample that ended a
\* run in which the motors were driven.
C26_Witness ==
  /\ Handled
  /\ Armed
  /\ sample.error
  /\ pre.data.state = kOperating
  /\ pre.motor1 # Zero3
  /\ data_.state = kFault
  /\ ~data_.torque_on
  /\ ~motor_enable_

\* The step arms the stabilizer.
Arms == data_.state = kInitializing /\ data_'.state = kOperating

\* The step writes phases other than (0,0,0) to a motor.
Drives ==
  \E i \in 1 .. Len(emitted') :
    emitted'[i].dev \in {"motor1", "motor2"} /\ emitted'[i].pwm # Zero3

\* C27: the call that arms sets the enable line false, writes neither motor
\* and evaluates neither PID; a motor is driven only by an error-free sample
\* handled in Operating, so first by the accepted sample after arming.
C27_ArmingIssuesNoDrive ==
  [][/\ Arms =>
          /\ emitted' = <<Event("motor_enable", FALSE, Zero3), Updater>>
          /\ motor_enable_' = FALSE
          /\ motor1_' = motor1_
          /\ motor2_' = motor2_
     /\ Drives =>
          /\ call' = "HandleAhrs"
          /\ ~sample'.error
          /\ data_.state = kOperating]_vars

\* The arming call, on a sample with yaw 45: two calls made, motors untouched.
C27_Witness ==
  /\ Handled
  /\ pre.data.state = kInitializing
  /\ data_.state = kOperating
  /\ sample.euler_deg.yaw = 45
  /\ Len(emitted) = 2
  /\ ~PidEvaluated(emitted)
  /\ motor1_ = Zero3
  /\ motor2_ = Zero3

\* C28: a step changes the pitch or the yaw PID state only if it is an
\* error-free sample handled in Operating.
C28_PidStateFrame ==
  [][(data_'.pitch # data_.pitch \/ data_'.yaw # data_.yaw) =>
       /\ call' = "HandleAhrs"
       /\ ~sample'.error
       /\ data_.state = kOperating]_vars

\* The fault transition on an error-flagged sample kept both integrators,
\* neither of them zero.
C28_Witness ==
  /\ Handled
  /\ Armed
  /\ sample.error
  /\ pre.data.state = kOperating
  /\ data_.state = kFault
  /\ data_.pitch = pre.data.pitch
  /\ data_.yaw = pre.data.yaw
  /\ data_.pitch.integral # 0
  /\ data_.yaw.integral # 0

\* C29: desired_body_rate_dps is never changed; desired_deg is changed only
\* by the arming step, which sets it to pitch 0 and the yaw of its sample.
C29_SetpointsFrame ==
  [][/\ data_'.desired_body_rate_dps = data_.desired_body_rate_dps
     /\ data_'.desired_deg # data_.desired_deg => Arms
     /\ Arms => data_'.desired_deg = Euler(0, sample'.euler_deg.yaw)
     /\ data_.state \in {kOperating, kFault} =>
          data_'.desired_deg = data_.desired_deg]_vars

\* An accepted sample with yaw 0 handled in Operating left the yaw setpoint
\* at the 45 latched on arming.
C29_Witness ==
  /\ Handled
  /\ Armed
  /\ ~sample.error
  /\ pre.data.state = kOperating
  /\ sample.euler_deg.yaw = 0
  /\ data_.desired_deg = Euler(0, 45)

\* C30: a step calls the telemetry updater once if it is a HandleAhrs call
\* and not at all otherwise, a PollMillisecond call that forces Fault
\* included.
C30_PollNeverPublishes ==
  [][Count(emitted', Updater) = IF call' = "HandleAhrs" THEN 1 ELSE 0]_vars

\* A poll forced Fault on a driven stabilizer: three actuator writes, no
\* telemetry.
C30_Witness ==
  /\ Polled
  /\ Armed
  /\ pre.data.state = kOperating
  /\ pre.motor1 # Zero3
  /\ data_.state = kFault
  /\ Len(emitted) = 3
  /\ ~Made(emitted, Updater)

\* C25 as claimed, for a stabilizer that went through arming: with a
\* PollMillisecond call running between statements of a HandleAhrs call, once
\* both have returned with state Fault both motors hold (0,0,0) and the
\* enable line is false.
C25_FaultSafeWhenPreempted ==
  (frame.pc = "idle" /\ Armed /\ data_.state = kFault) => OutputsSafe

\* C25 amended: once both have returned with state Fault the enable line is
\* false, and both motors hold (0,0,0) unless the poll forced Fault inside
\* the last HandleAhrs call.
C25_EnableSafeWhenPreempted ==
  (frame.pc = "idle" /\ data_.state = kFault) =>
    /\ motor_enable_ = FALSE
    /\ frame.preempted \/ (motor1_ = Zero3 /\ motor2_ = Zero3)

\* A poll forced Fault inside a HandleAhrs call, which went on to write its
\* phases: the call has returned, the state is Fault, a motor is driven.
C25_Witness ==
  /\ frame.pc = "idle"
  /\ frame.preempted
  /\ data_.state = kFault
  /\ data_.start_timestamp # U32Zero
  /\ ~motor_enable_
  /\ motor1_ # Zero3
  /\ motor2_ # Zero3

\* C31: an error-free sample handled in Initializing with start_timestamp 0
\* leaves start_timestamp different from 0, whatever the clock reads.
C31_TimerAlwaysStarts ==
  [][(/\ call' = "HandleAhrs"
      /\ ~sample'.error
      /\ data_.state = kInitializing
      /\ data_.start_timestamp = U32Zero) =>
       data_'.start_timestamp # U32Zero]_vars

\* gap / ticks_per_second > period_s, for a count of ticks that does not wrap.
GapExceeds(gap, period_s) == gap * 1000 > period_s * ticks_per_second

\* The clock read 0 at some tick after `reference' was read.
Wrapped(reference, now) ==
  reference[1] > now[1] \/ (reference[1] = now[1] /\ reference[2] > now[2])

\* C32: an error-free sample handled in Initializing with the timer running
\* arms exactly when the ticks counted since the timer was set exceed
\* initialization_period_s, and a poll in Operating faults exactly when the
\* ticks counted since the clock read the last stamp exceed
\* watchdog_period_s, whether or not the 32-bit clock wrapped in between.
C32_DeltasModulo ==
  [][/\ (/\ call' = "HandleAhrs"
         /\ ~sample'.error
         /\ data_.state = kInitializing
         /\ data_.start_timestamp # U32Zero
         /\ history.timer_set) =>
          ((data_'.state = kOperating) <=>
             GapExceeds(uptime - history.set_uptime,
                        config_.initialization_period_s))
     /\ (/\ call' = "PollMillisecond"
         /\ data_.state = kOperating
         /\ history.stamped) =>
          ((data_'.state = kFault) <=>
             GapExceeds(uptime - history.stamp_uptime,
                        config_.watchdog_period_s))]_vars

\* A poll forced Fault on a stamp read before the clock wrapped: the clock
\* reads less than the stamp, three ticks after it.
C32_Witness ==
  /\ Polled
  /\ Armed
  /\ history.stamped
  /\ pre.data.state = kOperating
  /\ data_.state = kFault
  /\ Wrapped(data_.last_ahrs_update, clock_)
  /\ uptime - history.stamp_uptime = WatchdogTicks + 1

\* The number of writes made to a device.
WritesTo(events, dev) ==
  Cardinality({i \in 1 .. Len(events) : events[i].dev = dev})

\* Each motor is written once, one with the pitch phases and the other with
\* the yaw phases.
EachMotorOnce ==
  /\ WritesTo(emitted', "motor1") = 1
  /\ WritesTo(emitted', "motor2") = 1
  /\ \/ /\ Made(emitted', Event("motor1", FALSE, Phases(PitchCommand)))
        /\ Made(emitted', Event("motor2", FALSE, Phases(YawCommand)))
     \/ /\ Made(emitted', Event("motor2", FALSE, Phases(PitchCommand)))
        /\ Made(emitted', Event("motor1", FALSE, Phases(YawCommand)))

\* C33 as claimed: whatever pitch.motor and yaw.motor hold, an accepted
\* sample in Operating writes each of motor1 and motor2 exactly once, one
\* with the pitch phases and the other with the yaw phases.
C33_EachMotorOnce ==
  [][(call' = "HandleAhrs" /\ ~sample'.error /\ data_.state = kOperating) =>
       EachMotorOnce]_vars

\* C33 amended: that holds when the two fields select different motors; when
\* they select the same motor, that motor is written twice, with the pitch
\* phases and then the yaw phases, which it keeps, and the other motor is not
\* written.
C33_MotorsByLookup ==
  [][(call' = "HandleAhrs" /\ ~sample'.error /\ data_.state = kOperating) =>
       /\ pitch_motor(config_) # yaw_motor(config_) => EachMotorOnce
       /\ pitch_motor(config_) = yaw_motor(config_) =>
            /\ emitted'[4] = Written(pitch_motor(config_), Phases(PitchCommand))
            /\ emitted'[5] = Written(pitch_motor(config_), Phases(YawCommand))
            /\ WritesTo(emitted', "motor1") + WritesTo(emitted', "motor2") = 2
            /\ IF pitch_motor(config_) = 1
                 THEN motor1_' = Phases(YawCommand) /\ motor2_' = motor2_
                 ELSE motor2_' = Phases(YawCommand) /\ motor1_' = motor1_]_vars

\* Both axes on motor2: an accepted sample whose two commands differ left
\* the yaw phases on motor2 and motor1 as it was, at (0,0,0).
C33_Witness ==
  /\ Handled
  /\ Armed
  /\ ~sample.error
  /\ pre.data.state = kOperating
  /\ config_.pitch.motor = 2
  /\ config_.yaw.motor = 2
  /\ WritesTo(emitted, "motor2") = 2
  /\ emitted[4].pwm # emitted[5].pwm
  /\ motor2_ = emitted[5].pwm
  /\ motor1_ = Zero3

\* C34 as claimed: from Initializing, if error-free samples keep arriving
\* and the clock keeps advancing between them, the state eventually becomes
\* Operating, for every finite non-negative initialization_period_s.
C34_AlwaysArms ==
  (data_.state = kInitializing /\ config_.initialization_period_s >= 0)
    ~> (data_.state = kOperating)

\* C34 amended: that holds for the periods a 32-bit tick delta can exceed,
\* here none, a tenth of a second and one second with samples a tick apart;
\* for FLT_MAX it does not.
C34_ArmsWithinRange ==
  (/\ data_.state = kInitializing
   /\ config_.initialization_period_s >= 0
   /\ config_.initialization_period_s # FLT_MAX)
    ~> (data_.state = kOperating)

\* A sample armed the stabilizer under the default period of one second,
\* after samples a tick apart from construction on.
C34_Witness ==
  /\ Handled
  /\ ~sample.error
  /\ pre.data.state = kInitializing
  /\ pre.data.start_timestamp # U32Zero
  /\ data_.state = kOperating
  /\ config_.initialization_period_s = 1000
  /\ uptime > InitializationTicks

====
